---- MODULE Spec2Model ----
(***************************************************************************)
(* Model of the fw-fanctrl launcher extension (src/main.py).               *)
(*                                                                         *)
(* The extension keeps one cached snapshot (FwFanctrlExtension.state),     *)
(* shells out to the fw-fanctrl tool, and answers two host events: a       *)
(* keyword query and the selection of a displayed entry.  The tool and the *)
(* host are the environment.  Every invocation of the tool is an input of  *)
(* the step that makes it: how it ends and, for a status read, the         *)
(* document it prints; a status read that follows a successful command     *)
(* reflects that command.  The host displays the last list it was handed   *)
(* and sends back the payload of the entry the user selects.               *)
(*                                                                         *)
(* Strings that are matched, compared or transformed character by          *)
(* character (keywords, queries, strategy names) are sequences of          *)
(* one-character strings; messages that are only passed around are plain   *)
(* strings.                                                                *)
(***************************************************************************)
EXTENDS Integers, Sequences, FiniteSets, TLC

(* ------------------------------------------------------------------ *)
(* Bounds                                                              *)
(* ------------------------------------------------------------------ *)

\* largest number of strategies the tool's configuration holds in the model
MaxStrategies == 2

(* ------------------------------------------------------------------ *)
(* Characters and strings                                              *)
(* ------------------------------------------------------------------ *)

\* the letters that occur in keywords and queries, with their code points
LowerOf == [A |-> "a", E |-> "e", G |-> "g", I |-> "i", L |-> "l", O |-> "o",
            P |-> "p", R |-> "r", S |-> "s", T |-> "t", Y |-> "y", Z |-> "z"]
UpperOf == [a |-> "A", e |-> "E", g |-> "G", i |-> "I", l |-> "L", o |-> "O",
            p |-> "P", r |-> "R", s |-> "S", t |-> "T", y |-> "Y", z |-> "Z"]
OrdOf == [a |-> 97, e |-> 101, g |-> 103, i |-> 105, l |-> 108, o |-> 111,
          p |-> 112, r |-> 114, s |-> 115, t |-> 116, y |-> 121, z |-> 122,
          A |-> 65, E |-> 69, G |-> 71, I |-> 73, L |-> 76, O |-> 79,
          P |-> 80, R |-> 82, S |-> 83, T |-> 84, Y |-> 89, Z |-> 90]

IsLetter(c) == c \in DOMAIN OrdOf

\* str.lower() / the case folding of re.IGNORECASE, on one character
Lower(c) == IF c \in DOMAIN LowerOf THEN LowerOf[c] ELSE c
\* str.upper() on one character
Upper(c) == IF c \in DOMAIN UpperOf THEN UpperOf[c] ELSE c
\* ord(c); of the other characters only "-" (45) and " " (32) occur
Ord(c) == IF c \in DOMAIN OrdOf THEN OrdOf[c] ELSE IF c = "-" THEN 45 ELSE 32

\* Python's < on str: lexicographic by code point, a proper prefix is smaller
StrLess(a, b) ==
    \E k \in 1..(Len(a) + 1) :
        /\ \A j \in 1..(k - 1) : j <= Len(b) /\ a[j] = b[j]
        /\ \/ k = Len(a) + 1 /\ Len(b) >= k
           \/ k <= Len(a) /\ k <= Len(b) /\ Ord(a[k]) < Ord(b[k])

MinOf(S) == CHOOSE m \in S : \A n \in S : m <= n

\* strategy.replace("-", " ").title(): separators become spaces, the first
\* letter of every word is upper-cased and the other letters lower-cased
Title(s) ==
    LET r == [i \in 1..Len(s) |-> IF s[i] = "-" THEN " " ELSE s[i]]
    IN  [i \in 1..Len(s) |->
            IF i = 1 \/ ~IsLetter(r[i - 1]) THEN Upper(r[i]) ELSE Lower(r[i])]

(* ------------------------------------------------------------------ *)
(* Values of the model                                                 *)
(* ------------------------------------------------------------------ *)

kwStart == <<"s", "t", "a", "r", "t">>
kwStop == <<"s", "t", "o", "p">>
Lazy == <<"l", "a", "z", "y">>
Agile == <<"a", "g", "i", "l", "e">>

\* the strategy names a configuration of the tool may use; strategies are
\* named by the user, and one of these is spelled like a keyword of the
\* toggle entry
StrategyNames == {Lazy, Agile, kwStart}

\* event.get_argument(): None (absent) or a string
NoQuery == [present |-> FALSE, text |-> <<>>]
Text(s) == [present |-> TRUE, text |-> s]
Queries ==
    {NoQuery, Text(<<>>), Text(<<"A">>), Text(<<"s", "t">>),
     Text(<<"s", "t", "r", "t">>)}

\* what the sensors read: fan speed in percent, temperature in degrees
Readings == {[speed |-> 0, temperature |-> 45], [speed |-> 40, temperature |-> 70]}

\* sequences without repetition (the keys of a JSON object, in order)
StrategyLists ==
    {s \in UNION {[1..n -> StrategyNames] : n \in 1..MaxStrategies} :
        \A i, j \in 1..Len(s) : i # j => s[i] # s[j]}

SeqRange(s) == {s[i] : i \in 1..Len(s)}

(* ------------------------------------------------------------------ *)
(* The fw-fanctrl tool (environment)                                   *)
(* ------------------------------------------------------------------ *)

\* how one invocation of the status command can end: exit code 0 with the
\* expected document, a non-zero exit code, output that is not JSON, JSON
\* that lacks an expected field, no such binary
StatusOutcomes == {"ok", "nonzero", "badjson", "missingfield", "notfound"}
\* how one invocation of pause / resume / use can end
CommandOutcomes == {"ok", "nonzero", "notfound"}

\* stdout of `fw-fanctrl --output-format=JSON print all`, parsed.  The
\* strategies object is represented by its keys in document order; the
\* current strategy is one of them.
StatusDocuments ==
    {d \in [strategy : StrategyNames, active : BOOLEAN,
            speed : {r.speed : r \in Readings},
            temperature : {r.temperature : r \in Readings},
            configuration : [data : [strategies : StrategyLists]]] :
        /\ d.strategy \in SeqRange(d.configuration.data.strategies)
        /\ [speed |-> d.speed, temperature |-> d.temperature] \in Readings}

\* a status read after a successful command reflects the command: pause and
\* resume set the active flag, use sets the current strategy
Reflects(doc, argv) ==
    CASE argv[2] = "pause" -> ~doc.active
      [] argv[2] = "resume" -> doc.active
      [] argv[2] = "use" -> doc.strategy = argv[3]
      [] OTHER -> TRUE

(* ------------------------------------------------------------------ *)
(* Results handed to the host                                          *)
(* ------------------------------------------------------------------ *)

None == [none |-> TRUE]

RenderResultListAction(items) == [kind |-> "RenderResultListAction", items |-> items]
DoNothingAction == [kind |-> "DoNothingAction", items |-> <<>>]
\* an exception leaves the handler: the host gets no response
Raised(exc) == [kind |-> "raised", items |-> <<>>, exception |-> exc]
\* __init__ hands nothing to the host
NoResult == [kind |-> "none", items |-> <<>>]

ExtensionCustomAction(data) == [type |-> "custom", data |-> data, keep_app_open |-> TRUE]
CopyToClipboardAction(text) == [type |-> "copy", text |-> text]

nameError == <<"A", "n", " ", "u", "n", "e", "x", "p", "e", "c", "t", "e", "d", " ", "e", "r", "r", "o", "r", " ", "o", "c", "c", "u", "r", "r", "e", "d">>
nameRunning == <<"R", "u", "n", "n", "i", "n", "g">>
nameStopped == <<"S", "t", "o", "p", "p", "e", "d">>

render_error(error) ==
    RenderResultListAction(
        <<[icon |-> "images/fw-fanctrl.png",
           name |-> nameError,
           description |-> <<"Press enter to copy to clipboard, good luck o7">>,
           on_enter |-> CopyToClipboardAction(error),
           keyword |-> <<>>]>>)

(* ------------------------------------------------------------------ *)
(* fuzzyfinder                                                         *)
(* ------------------------------------------------------------------ *)

\* The pattern is the query's characters joined by ".*?", compiled with
\* re.IGNORECASE: from a fixed start every following character is taken at
\* its earliest occurrence.  Index of the last matched character, 0 if the
\* rest of the query does not occur.
RECURSIVE LazyEnd(_, _, _, _)
LazyEnd(q, kw, qi, from) ==
    IF qi > Len(q) THEN from - 1
    ELSE LET at == {k \in from..Len(kw) : Lower(kw[k]) = Lower(q[qi])}
         IN  IF at = {} THEN 0 ELSE LazyEnd(q, kw, qi + 1, MinOf(at) + 1)

\* the matches of finditer, one per start position where the pattern
\* matches: <<length of the match, 0-based start>>
Matches(q, kw) ==
    {<<LazyEnd(q, kw, 2, i + 1) - i + 1, i - 1>> :
        i \in {j \in 1..Len(kw) :
                 Lower(kw[j]) = Lower(q[1]) /\ LazyEnd(q, kw, 2, j + 1) # 0}}

\* min(r, key=len): the shortest match, the earliest among the shortest
BestMatch(q, kw) ==
    LET ms == Matches(q, kw)
    IN  CHOOSE m \in ms :
            \A n \in ms : m[1] < n[1] \/ (m[1] = n[1] /\ m[2] <= n[2])

\* the loop over the collection: one tuple (length, start, keyword, item)
\* per matching item, in the collection's order
RECURSIVE Suggestions(_, _, _)
Suggestions(input, collection, i) ==
    IF i > Len(collection) THEN <<>>
    ELSE LET item == collection[i]
             rest == Suggestions(input, collection, i + 1)
         IN  IF Matches(input, item.keyword) = {} THEN rest
             ELSE LET best == BestMatch(input, item.keyword)
                  IN  <<[len |-> best[1], start |-> best[2],
                         keyword |-> item.keyword, item |-> item]>> \o rest

\* order of the tuples (length, start, keyword) that sorted() compares
KeyLess(a, b) ==
    \/ a.len < b.len
    \/ a.len = b.len /\ a.start < b.start
    \/ a.len = b.len /\ a.start = b.start /\ StrLess(a.keyword, b.keyword)

\* Sorted with the order of sort_results=False: by (length, start) only,
\* ties left in the collection's order, items never compared
Sorted_byLengthAndStart(suggestions) ==
    LET n == Len(suggestions)
        less(a, b) == a.len < b.len \/ (a.len = b.len /\ a.start < b.start)
        rank(i) == 1 + Cardinality({j \in 1..n :
                          \/ less(suggestions[j], suggestions[i])
                          \/ ~less(suggestions[i], suggestions[j]) /\ j < i})
    IN  [raised |-> FALSE,
         items |-> [k \in 1..n |-> suggestions[CHOOSE i \in 1..n : rank(i) = k].item]]

\* sorted(suggestions): ascending by (length, start, keyword, item).  Two
\* tuples whose first three components agree are compared by their items,
\* and result items have no order: TypeError.
Sorted(suggestions) ==
    LET n == Len(suggestions)
        tie == \E i, j \in 1..n :
                   /\ i # j
                   /\ ~KeyLess(suggestions[i], suggestions[j])
                   /\ ~KeyLess(suggestions[j], suggestions[i])
        rank(i) == 1 + Cardinality({j \in 1..n : KeyLess(suggestions[j], suggestions[i])})
    IN  IF tie THEN [raised |-> TRUE, items |-> <<>>]
        ELSE [raised |-> FALSE,
              items |-> [k \in 1..n |->
                            suggestions[CHOOSE i \in 1..n : rank(i) = k].item]]

\* fuzzyfinder(input, collection, accessor=get_keyword), sort_results left
\* at True
fuzzyfinder(input, collection) == Sorted(Suggestions(input, collection, 1))

(* ------------------------------------------------------------------ *)
(* FwFanctrlExtension                                                  *)
(* ------------------------------------------------------------------ *)

\* the toggle entry of render; the description is kept as the pieces of the
\* f-string (the degree sign is left out)
ToggleItem(st, query) ==
    [icon |-> IF st.active THEN "images/active.png" ELSE "images/inactive.png",
     name |-> IF st.active THEN nameRunning ELSE nameStopped,
     description |->
        IF st.active
        THEN <<"Temperature: ", st.temperature, "C Fan Speed ", st.speed, "%">>
        ELSE <<"Your Framework will use its default fan behaviour">>,
     on_enter |-> ExtensionCustomAction([action |-> "toggle-active", query |-> query]),
     keyword |-> IF st.active THEN kwStop ELSE kwStart]

\* StrategyItem with the check icon given to the first strategy of the list
StrategyItem_checksFirst(st, query, strategy) ==
    [icon |-> IF strategy = st.strategies[1] THEN "images/check.png"
              ELSE "images/empty.png",
     name |-> Title(strategy),
     description |-> <<>>,
     on_enter |-> ExtensionCustomAction(
                    [action |-> "set-strategy", query |-> query, strategy |-> strategy]),
     keyword |-> strategy]

\* one strategy entry of render
StrategyItem(st, query, strategy) ==
    [icon |-> IF strategy = st.strategy THEN "images/check.png" ELSE "images/empty.png",
     name |-> Title(strategy),
     description |-> <<>>,
     on_enter |-> ExtensionCustomAction(
                    [action |-> "set-strategy", query |-> query, strategy |-> strategy]),
     keyword |-> strategy]

\* AllItems with the toggle entry appended instead of prepended
AllItems_toggleLast(st, query) ==
    [i \in 1..Len(st.strategies) |-> StrategyItem(st, query, st.strategies[i])]
    \o <<ToggleItem(st, query)>>

\* the list `all` of render
AllItems(st, query) ==
    <<ToggleItem(st, query)>> \o
    [i \in 1..Len(st.strategies) |-> StrategyItem(st, query, st.strategies[i])]

\* `not query`: None and "" are both falsy
QueryIsEmpty(query) == ~query.present \/ query.text = <<>>

\* render with a snapshot held (the body after the None check)
RenderHeld(st, query) ==
    IF QueryIsEmpty(query) THEN RenderResultListAction(AllItems(st, query))
    ELSE LET found == fuzzyfinder(query.text, AllItems(st, query))
         IN  IF found.raised THEN Raised("TypeError")
             ELSE RenderResultListAction(found.items)

\* refresh_state: the new value of self.state, the returned error string
\* (None when the fetch succeeded) and whether an exception left the method
refresh_state(st, data, outcome) ==
    CASE outcome = "ok" ->
                [state |-> [strategy |-> data.strategy,
                            active |-> data.active,
                            speed |-> data.speed,
                            temperature |-> data.temperature,
                            strategies |-> data.configuration.data.strategies],
                 error |-> "", raised |-> FALSE]
      [] outcome = "nonzero" ->
            [state |-> st, error |-> "fw-fanctrl command failed: CalledProcessError",
             raised |-> FALSE]
      [] outcome = "badjson" ->
            [state |-> st, error |-> "Failed to parse fw-fanctrl output: JSONDecodeError",
             raised |-> FALSE]
      [] outcome = "notfound" ->
            [state |-> st,
             error |-> "fw-fanctrl command not found. Please ensure it's installed and in PATH.",
             raised |-> FALSE]
      [] OTHER ->
            \* a field is missing: KeyError is not among the handled exceptions
            [state |-> st, error |-> "", raised |-> TRUE]

\* refresh_and_render that renders without the pending query
refresh_and_render_dropsQuery(st, query, data, outcome) ==
    LET r == refresh_state(st, data, outcome)
    IN  IF r.raised THEN [state |-> r.state, result |-> Raised("KeyError")]
        ELSE IF r.error # "" THEN [state |-> r.state, result |-> render_error(r.error)]
        ELSE [state |-> r.state, result |-> RenderHeld(r.state, NoQuery)]

\* refresh_and_render: the state afterwards and the result
refresh_and_render(st, query, data, outcome) ==
    LET r == refresh_state(st, data, outcome)
    IN  IF r.raised THEN [state |-> r.state, result |-> Raised("KeyError")]
        ELSE IF r.error # "" THEN [state |-> r.state, result |-> render_error(r.error)]
        ELSE [state |-> r.state, result |-> RenderHeld(r.state, query)]

\* render that answers "not ready" instead of fetching
render_notReady(st, query, data, outcome) ==
    IF st = None
    THEN [state |-> st,
          result |-> RenderResultListAction(
                        <<[icon |-> "images/fw-fanctrl.png",
                           name |-> <<"N", "o", "t", " ", "r", "e", "a", "d", "y">>,
                           description |-> <<"fw-fanctrl state is not available yet">>,
                           on_enter |-> [type |-> "nothing"],
                           keyword |-> <<>>]>>)]
    ELSE [state |-> st, result |-> RenderHeld(st, query)]

\* render: without a snapshot it fetches first
render(st, query, data, outcome) ==
    IF st = None THEN refresh_and_render(st, query, data, outcome)
    ELSE [state |-> st, result |-> RenderHeld(st, query)]

\* one invocation of the tool, as the history records it: the arguments,
\* how it ended and, for a status read that ended well, the document
Call(argv, outcome, data) ==
    [argv |-> argv, outcome |-> outcome,
     reply |-> IF outcome = "ok" THEN data ELSE None]
StatusArgv == <<"fw-fanctrl", "--output-format=JSON", "print", "all">>

\* the part shared by the two action handlers: run the mutating command,
\* then refresh and render.  Only CalledProcessError is handled around the
\* command; a missing binary raises FileNotFoundError out of the handler.
RunThenRefresh(st, query, argv, cmdOutcome, data, statusOutcome) ==
    IF st = None THEN
        refresh_and_render(st, query, data, statusOutcome)
            @@ [calls |-> <<Call(StatusArgv, statusOutcome, data)>>]
    ELSE IF cmdOutcome = "nonzero" THEN
        [state |-> st, result |-> render_error("CalledProcessError"),
         calls |-> <<Call(argv, cmdOutcome, None)>>]
    ELSE IF cmdOutcome = "notfound" THEN
        [state |-> st, result |-> Raised("FileNotFoundError"),
         calls |-> <<Call(argv, cmdOutcome, None)>>]
    ELSE
        refresh_and_render(st, query, data, statusOutcome)
            @@ [calls |-> <<Call(argv, cmdOutcome, None),
                            Call(StatusArgv, statusOutcome, data)>>]

\* ToggleArgv with the two commands swapped
ToggleArgv_swapped(st) ==
    <<"fw-fanctrl", IF st # None /\ st.active THEN "resume" ELSE "pause">>

ToggleArgv(st) ==
    <<"fw-fanctrl", IF st # None /\ st.active THEN "pause" ELSE "resume">>

handle_toggle_active_action(st, query, cmdOutcome, data, statusOutcome) ==
    RunThenRefresh(st, query, ToggleArgv(st), cmdOutcome, data, statusOutcome)

handle_set_strategy_action(st, query, strategy, cmdOutcome, data, statusOutcome) ==
    RunThenRefresh(st, query, <<"fw-fanctrl", "use", strategy>>, cmdOutcome, data,
                   statusOutcome)

(* ------------------------------------------------------------------ *)
(* State                                                               *)
(* ------------------------------------------------------------------ *)

\* pc: "new" before __init__, "running" after it, "crashed" if it raised
VARIABLE pc
\* FwFanctrlExtension.state: None or the snapshot
VARIABLE state
\* the entries the host displays: those of the last list it was handed
VARIABLE shown
\* the last step: operation, query, tool invocations, result
VARIABLE last

vars == <<pc, state, shown, last>>

Step(op, query, calls, result) ==
    [op |-> op, query |-> query, calls |-> calls, result |-> result]

\* the host replaces what it displays when it is handed a list; when the
\* handler raises it is handed nothing and still holds the previous list
Display(result) ==
    IF result.kind = "RenderResultListAction" THEN result.items ELSE shown

\* what a status invocation that ends with `outcome` can print
Replies(outcome) == IF outcome = "ok" THEN StatusDocuments ELSE {None}

\* the effect of one handler run: the snapshot afterwards, what the host
\* displays, and the record of the step
Finish(op, query, r, calls) ==
    /\ state' = r.state
    /\ shown' = Display(r.result)
    /\ last' = Step(op, query, calls, r.result)

Init ==
    /\ pc = "new"
    /\ state = None
    /\ shown = <<>>
    /\ last = Step("none", NoQuery, <<>>, NoResult)

\* __init__ returns nothing and drops the string refresh_state returns; an
\* exception leaves the constructor and the process
Constructed(r, calls) ==
    /\ pc' = IF r.raised THEN "crashed" ELSE "running"
    /\ Finish("init", NoQuery,
              [state |-> r.state,
               result |-> IF r.raised THEN Raised("KeyError") ELSE NoResult],
              calls)

\* FwFanctrlExtension.__init__: subscribes the listeners and refreshes
Startup ==
    /\ pc = "new"
    /\ \E outcome \in StatusOutcomes :
         \E data \in Replies(outcome) :
           Constructed(refresh_state(state, data, outcome),
                       <<Call(StatusArgv, outcome, data)>>)

\* KeywordQueryEventListener.on_event
OnKeywordQuery ==
    /\ pc = "running"
    /\ \E query \in Queries :
         \E outcome \in IF state = None THEN StatusOutcomes ELSE {"ok"} :
           \E data \in IF state = None THEN Replies(outcome) ELSE {None} :
             Finish("query", query, render(state, query, data, outcome),
                    IF state = None THEN <<Call(StatusArgv, outcome, data)>> ELSE <<>>)
    /\ UNCHANGED pc

\* ItemEnterEventListener.on_event on the payload of a selected entry
ItemEnter(data, cmdOutcome, doc, statusOutcome) ==
    IF data.action = "toggle-active" THEN
        handle_toggle_active_action(state, data.query, cmdOutcome, doc, statusOutcome)
            @@ [op |-> "toggle"]
    ELSE IF data.action = "set-strategy" THEN
        handle_set_strategy_action(state, data.query, data.strategy, cmdOutcome, doc,
                                   statusOutcome)
            @@ [op |-> "set"]
    ELSE [state |-> state, result |-> DoNothingAction, calls |-> <<>>, op |-> "nothing"]

\* the argv of the mutating command a payload leads to
PayloadArgv(data) ==
    IF data.action = "toggle-active" THEN ToggleArgv(state)
    ELSE <<"fw-fanctrl", "use", data.strategy>>

FinishItemEnter(data, r) == Finish(r.op, data.query, r, r.calls)

\* the user selects a displayed entry that carries a custom action; the
\* host sends its payload back to the extension
OnItemEnter ==
    /\ pc = "running"
    /\ \E i \in 1..Len(shown) :
         /\ shown[i].on_enter.type = "custom"
         /\ \E cmdOutcome \in CommandOutcomes :
              \E statusOutcome \in IF cmdOutcome = "ok" THEN StatusOutcomes ELSE {"ok"} :
                \E doc \in IF cmdOutcome = "ok" THEN Replies(statusOutcome) ELSE {None} :
                  /\ doc # None => Reflects(doc, PayloadArgv(shown[i].on_enter.data))
                  /\ FinishItemEnter(shown[i].on_enter.data,
                                     ItemEnter(shown[i].on_enter.data, cmdOutcome, doc,
                                               statusOutcome))
    /\ UNCHANGED pc

Next ==
    \/ Startup
    \/ OnKeywordQuery
    \/ OnItemEnter

Spec == Init /\ [][Next]_vars

(* ------------------------------------------------------------------ *)
(* Vocabulary of the properties                                        *)
(* ------------------------------------------------------------------ *)

IsList(result) == result.kind = "RenderResultListAction"

\* the result is the single entry that offers an error text for copying
IsErrorEntry(result) ==
    /\ IsList(result)
    /\ Len(result.items) = 1
    /\ result.items[1].on_enter.type = "copy"
    /\ result.items[1].on_enter.text # ""

IsStatusCall(c) == c.argv = StatusArgv
IsMutatingCall(c) == c.argv[2] \in {"pause", "resume", "use"}

\* the snapshot a status document describes
SnapshotOf(doc) ==
    [strategy |-> doc.strategy, active |-> doc.active, speed |-> doc.speed,
     temperature |-> doc.temperature,
     strategies |-> doc.configuration.data.strategies]

\* the step ran render's list-building part on the snapshot now held: it
\* was a host event and every tool invocation it made ended well
Rendered(l, st) ==
    /\ l.op \in {"query", "toggle", "set"}
    /\ st # None
    /\ \A i \in 1..Len(l.calls) : l.calls[i].outcome = "ok"

\* q's characters occur in kw in order, ignoring case
RECURSIVE SubseqCI(_, _)
SubseqCI(q, kw) ==
    IF q = <<>> THEN TRUE
    ELSE IF kw = <<>> THEN FALSE
    ELSE IF Lower(Head(q)) = Lower(Head(kw)) THEN SubseqCI(Tail(q), Tail(kw))
    ELSE SubseqCI(q, Tail(kw))

\* all ways to place q's characters in kw, in order, ignoring case
Embeddings(q, kw) ==
    {f \in [1..Len(q) -> 1..Len(kw)] :
        /\ \A i \in 1..Len(q) : Lower(kw[f[i]]) = Lower(q[i])
        /\ \A i \in 1..(Len(q) - 1) : f[i] < f[i + 1]}

Span(f) == f[Len(f)] - f[1] + 1

\* an entry ranks before another: shorter shortest span, then earlier start
\* of the earliest shortest span, then smaller keyword
ShortestSpan(q, kw) == MinOf({Span(f) : f \in Embeddings(q, kw)})
SpanStart(q, kw) ==
    MinOf({f[1] : f \in {g \in Embeddings(q, kw) : Span(g) = ShortestSpan(q, kw)}})
RanksBefore(q, a, b) ==
    \/ ShortestSpan(q, a.keyword) < ShortestSpan(q, b.keyword)
    \/ /\ ShortestSpan(q, a.keyword) = ShortestSpan(q, b.keyword)
       /\ \/ SpanStart(q, a.keyword) < SpanStart(q, b.keyword)
          \/ /\ SpanStart(q, a.keyword) = SpanStart(q, b.keyword)
             /\ StrLess(a.keyword, b.keyword)

(* ------------------------------------------------------------------ *)
(* C1                                                                  *)
(* ------------------------------------------------------------------ *)

\* C1: rendering a held snapshot of N strategies with an empty or absent
\* query gives N+1 entries: the toggle entry, then one entry per strategy
\* in the order of the snapshot's strategies.
C1_EmptyQueryListsAll ==
    (Rendered(last, state) /\ QueryIsEmpty(last.query)) =>
        /\ IsList(last.result)
        /\ Len(last.result.items) = Len(state.strategies) + 1
        /\ \A k \in 1..Len(last.result.items) :
              last.result.items[k].on_enter.type = "custom"
        /\ last.result.items[1].on_enter.data.action = "toggle-active"
        /\ \A i \in 1..Len(state.strategies) :
              /\ last.result.items[i + 1].on_enter.data.action = "set-strategy"
              /\ last.result.items[i + 1].on_enter.data.strategy = state.strategies[i]
              /\ last.result.items[i + 1].keyword = state.strategies[i]

\* an absent query rendered on a snapshot of two strategies: three entries
C1_Witness ==
    /\ Rendered(last, state)
    /\ last.op = "query"
    /\ ~last.query.present
    /\ Len(state.strategies) = 2
    /\ Len(last.result.items) = 3

(* ------------------------------------------------------------------ *)
(* C2                                                                  *)
(* ------------------------------------------------------------------ *)

\* indices of the candidates whose keyword matches the query
MatchingCandidates(all, q) == {i \in 1..Len(all) : SubseqCI(q, all[i].keyword)}

KeepsOrderOf(items, all, q) ==
    items = SelectSeq(all, LAMBDA e : SubseqCI(q, e.keyword))

\* C2 as stated: with a non-empty query render returns the matching
\* candidates in the relative order of the unfiltered list.
C2_OrderPreservingFilter ==
    (Rendered(last, state) /\ ~QueryIsEmpty(last.query)) =>
        /\ IsList(last.result)
        /\ KeepsOrderOf(last.result.items, AllItems(state, last.query), last.query.text)

\* C2, amended: with a non-empty query render returns exactly the matching
\* candidates (keyword contains the query as a case-insensitive
\* subsequence), ordered by rank: shortest matching span, then earliest
\* start, then keyword; if two matching candidates have the same keyword
\* the ranking raises and no list is returned.
C2_RankedFilter ==
    (Rendered(last, state) /\ ~QueryIsEmpty(last.query)) =>
        LET all == AllItems(state, last.query)
            q == last.query.text
            M == MatchingCandidates(all, q)
            items == last.result.items
        IN  IF \E i, j \in M : i # j /\ all[i].keyword = all[j].keyword
            THEN last.result.kind = "raised"
            ELSE /\ IsList(last.result)
                 /\ Len(items) = Cardinality(M)
                 /\ {items[k] : k \in 1..Len(items)} = {all[i] : i \in M}
                 /\ \A k \in 1..(Len(items) - 1) : RanksBefore(q, items[k], items[k + 1])

\* query "A" on the strategies lazy, agile: both match, agile comes first
C2_Witness ==
    /\ Rendered(last, state)
    /\ last.query = Text(<<"A">>)
    /\ state.strategies = <<Lazy, Agile>>
    /\ state.active
    /\ IsList(last.result)
    /\ Len(last.result.items) = 2
    /\ last.result.items[1].keyword = Agile
    /\ last.result.items[2].keyword = Lazy

(* ------------------------------------------------------------------ *)
(* C3                                                                  *)
(* ------------------------------------------------------------------ *)

\* the step made a status invocation that found no binary
StatusNotFound(l) ==
    \E i \in 1..Len(l.calls) :
        IsStatusCall(l.calls[i]) /\ l.calls[i].outcome = "notfound"

\* C3: wherever a refresh runs while the tool is absent, the snapshot keeps
\* its value and the error is handed to the user as a copyable error entry.
C3_AbsentToolErrorShown ==
    [][StatusNotFound(last') => (state' = state /\ IsErrorEntry(last'.result))]_vars

(* ------------------------------------------------------------------ *)
(* C4                                                                  *)
(* ------------------------------------------------------------------ *)

\* a single entry whose selection neither dispatches nor copies
IsNotReadyEntry(result) ==
    /\ IsList(result)
    /\ Len(result.items) = 1
    /\ result.items[1].on_enter.type \notin {"custom", "copy"}

\* C4 as stated: a query while no snapshot is held is answered with a
\* single "not ready" entry without action.
C4_NotReadyEntry ==
    [][(last'.op = "query" /\ state = None) => IsNotReadyEntry(last'.result)]_vars

\* C4, amended: a query while no snapshot is held is never answered with a
\* "not ready" entry; render fetches, and answers with the list rendered
\* from the fetched snapshot if the fetch succeeds, with a single copyable
\* error entry (snapshot still absent) if it fails with a non-zero exit,
\* invalid JSON or a missing binary, and with nothing if the fetch or the
\* ranking raises.
C4_FetchInsteadOfNotReady ==
    [][(last'.op = "query" /\ state = None) =>
          /\ Len(last'.calls) = 1
          /\ IsStatusCall(last'.calls[1])
          /\ \A k \in 1..Len(last'.result.items) :
                last'.result.items[k].on_enter.type \in {"custom", "copy"}
          /\ CASE last'.calls[1].outcome = "ok" ->
                    /\ state' = SnapshotOf(last'.calls[1].reply)
                    /\ \/ last'.result.kind = "raised"
                       \/ /\ IsList(last'.result)
                          /\ \A k \in 1..Len(last'.result.items) :
                                last'.result.items[k].on_enter.type = "custom"
               [] last'.calls[1].outcome \in {"nonzero", "badjson", "notfound"} ->
                    state' = None /\ IsErrorEntry(last'.result)
               [] OTHER ->
                    state' = None /\ last'.result.kind = "raised"]_vars

\* a query arrived while no snapshot was held, the fetch failed, and the
\* answer is the error entry
C4_Witness ==
    /\ last.op = "query"
    /\ state = None
    /\ Len(last.calls) = 1
    /\ last.calls[1].outcome = "badjson"
    /\ IsErrorEntry(last.result)

(* ------------------------------------------------------------------ *)
(* C5                                                                  *)
(* ------------------------------------------------------------------ *)

\* C5: toggling with a snapshot held runs "pause" if the snapshot is active
\* and "resume" otherwise; from an inactive snapshot, when the command and
\* the refresh succeed, the new snapshot is active and the toggle entry's
\* keyword, "start" for the old snapshot, is "stop" in the new list.
C5_ToggleRoundTrip ==
    [][(last'.op = "toggle" /\ state # None) =>
          /\ Len(last'.calls) >= 1
          /\ last'.calls[1].argv =
                <<"fw-fanctrl", IF state.active THEN "pause" ELSE "resume">>
          /\ (~state.active /\ Rendered(last', state')) =>
                /\ state'.active
                /\ ToggleItem(state, last'.query).keyword = kwStart
                /\ \A k \in 1..Len(last'.result.items) :
                      last'.result.items[k].on_enter.data.action = "toggle-active"
                          => last'.result.items[k].keyword = kwStop
                /\ QueryIsEmpty(last'.query) =>
                      /\ IsList(last'.result)
                      /\ last'.result.items[1].on_enter.data.action = "toggle-active"
                      /\ last'.result.items[1].keyword = kwStop]_vars

\* a toggle ran "resume", everything succeeded, and the list shows "stop"
C5_Witness ==
    /\ last.op = "toggle"
    /\ Len(last.calls) = 2
    /\ last.calls[1].argv = <<"fw-fanctrl", "resume">>
    /\ Rendered(last, state)
    /\ state.active
    /\ IsList(last.result)
    /\ Len(last.result.items) >= 1
    /\ last.result.items[1].keyword = kwStop

(* ------------------------------------------------------------------ *)
(* C6                                                                  *)
(* ------------------------------------------------------------------ *)

\* keywords of the candidates render builds from a snapshot
CandidateKeywords(st) ==
    {IF st.active THEN kwStop ELSE kwStart} \cup SeqRange(st.strategies)

\* keywords of the candidates a query keeps
KeptKeywords(st, query) ==
    IF QueryIsEmpty(query) THEN CandidateKeywords(st)
    ELSE {kw \in CandidateKeywords(st) : SubseqCI(query.text, kw)}

\* the step ran pause, resume or use, and the command succeeded
CommandSucceeded(l) ==
    /\ l.op \in {"toggle", "set"}
    /\ Len(l.calls) >= 1
    /\ IsMutatingCall(l.calls[1])
    /\ l.calls[1].outcome = "ok"

\* C6: after a successful pause, resume or use the handler fetches the
\* state before it renders; the snapshot becomes exactly what that fetch
\* read (and is left as it was if the fetch fails), and the list is
\* rendered with the query of the selected payload: filtered by it, every
\* entry carrying it.
C6_RefreshThenRender ==
    [][CommandSucceeded(last') =>
          /\ Len(last'.calls) = 2
          /\ IsStatusCall(last'.calls[2])
          /\ \E i \in 1..Len(shown) :
                /\ shown[i].on_enter.type = "custom"
                /\ shown[i].on_enter.data.query = last'.query
          /\ IF last'.calls[2].outcome = "ok"
             THEN /\ state' = SnapshotOf(last'.calls[2].reply)
                  /\ last'.result.kind \in {"RenderResultListAction", "raised"}
                  /\ IsList(last'.result) =>
                        /\ \A k \in 1..Len(last'.result.items) :
                              /\ last'.result.items[k].on_enter.type = "custom"
                              /\ last'.result.items[k].on_enter.data.query = last'.query
                        /\ {last'.result.items[k].keyword :
                               k \in 1..Len(last'.result.items)}
                             = KeptKeywords(state', last'.query)
             ELSE state' = state]_vars

\* a selection with the pending query "A": command and fetch succeeded, the
\* snapshot changed and the new list is filtered by "A"
C6_Witness ==
    /\ CommandSucceeded(last)
    /\ Rendered(last, state)
    /\ last.query = Text(<<"A">>)
    /\ IsList(last.result)
    /\ Len(last.result.items) = 2
    /\ Len(state.strategies) = 2
    /\ state = SnapshotOf(last.calls[2].reply)

(* ------------------------------------------------------------------ *)
(* C7                                                                  *)
(* ------------------------------------------------------------------ *)

\* the step ran pause, resume or use, and the command failed
CommandFailed(l) ==
    /\ l.op \in {"toggle", "set"}
    /\ Len(l.calls) >= 1
    /\ IsMutatingCall(l.calls[1])
    /\ l.calls[1].outcome # "ok"

\* C7: when pause, resume or use fails the handler answers with an error
\* result: no refresh, the snapshot as it was, no list of candidates.
C7_CommandFailureSurfaced ==
    [][CommandFailed(last') =>
          /\ Len(last'.calls) = 1
          /\ state' = state
          /\ IsErrorEntry(last'.result)]_vars

(* ------------------------------------------------------------------ *)
(* C8                                                                  *)
(* ------------------------------------------------------------------ *)

\* C8: whatever the tool does, startup and the handlers complete with a
\* result: no exception leaves them.
C8_NoExceptionEscapes == last.result.kind # "raised" /\ pc # "crashed"

(* ------------------------------------------------------------------ *)
(* C9                                                                  *)
(* ------------------------------------------------------------------ *)

\* C9: selecting the entry of strategy X with a snapshot held runs "use X";
\* when the command and the refresh succeed the snapshot's strategy is X,
\* and in the new list the entry of X has the check icon and every other
\* strategy entry the empty icon.
C9_SelectStrategy ==
    [][(last'.op = "set" /\ state # None) =>
          /\ Len(last'.calls) >= 1
          /\ Len(last'.calls[1].argv) = 3
          /\ last'.calls[1].argv[2] = "use"
          /\ \E i \in 1..Len(shown) :
                /\ shown[i].on_enter.type = "custom"
                /\ shown[i].on_enter.data.action = "set-strategy"
                /\ shown[i].on_enter.data.strategy = last'.calls[1].argv[3]
          /\ Rendered(last', state') =>
                /\ state'.strategy = last'.calls[1].argv[3]
                /\ \A k \in 1..Len(last'.result.items) :
                      last'.result.items[k].on_enter.data.action = "set-strategy" =>
                          last'.result.items[k].icon =
                              IF last'.result.items[k].on_enter.data.strategy
                                    = last'.calls[1].argv[3]
                              THEN "images/check.png" ELSE "images/empty.png"
                /\ QueryIsEmpty(last'.query) =>
                      \E k \in 1..Len(last'.result.items) :
                          /\ last'.result.items[k].keyword = last'.calls[1].argv[3]
                          /\ last'.result.items[k].icon = "images/check.png"]_vars

\* "use agile" and the refresh succeeded: of the two strategy entries shown,
\* agile is checked and lazy is not
C9_Witness ==
    /\ last.op = "set"
    /\ Rendered(last, state)
    /\ last.calls[1].argv = <<"fw-fanctrl", "use", Agile>>
    /\ state.strategy = Agile
    /\ state.strategies = <<Lazy, Agile>>
    /\ QueryIsEmpty(last.query)
    /\ Len(last.result.items) = 3
    /\ last.result.items[2].icon = "images/empty.png"
    /\ last.result.items[3].icon = "images/check.png"

(* ------------------------------------------------------------------ *)
(* C10                                                                 *)
(* ------------------------------------------------------------------ *)

\* C10: every "use <name>" is issued for a name among the strategies of
\* the snapshot held when it is issued.
C10_UseOnlyListed ==
    [][(last'.op = "set" /\ Len(last'.calls) >= 1 /\ last'.calls[1].argv[2] = "use") =>
          /\ state # None
          /\ last'.calls[1].argv[3] \in SeqRange(state.strategies)]_vars

====
